---- MODULE Spec2Model ----
(***************************************************************************)
(* Model of src/sinks/influxdb_metrics.rs: the encoder of metric samples   *)
(* into InfluxDB line protocol.                                            *)
(*                                                                         *)
(* A Rust String is modelled as a sequence of one-character strings, so    *)
(* that escaping, joining and the byte-wise ordering of a BTreeMap are     *)
(* computed and not assumed.  An f64 is modelled as an exact rational      *)
(* <<numerator, denominator>> in lowest terms with a positive denominator  *)
(* (NaN and the infinities are outside the model).                         *)
(***************************************************************************)
EXTENDS Integers, Sequences, FiniteSets, TLC

VARIABLES
    pc,              \* "start" before the modelled call, "done" after it
    namespace,       \* encode_events: the namespace argument
    events,          \* encode_events: the batch (Vec<Metric>)
    pos,             \* encode_events: number of events the iterator has consumed
    line_protocols,  \* encode_events: the lines collected so far
    values,          \* encode_distribution: argument values
    counts,          \* encode_distribution: argument counts
    dist_fields,     \* encode_distribution: the returned Option, or Panic
    key,             \* encode_key: argument
    escaped_key,     \* encode_key: result
    tags,            \* encode_tags: argument
    encoded_tags,    \* encode_tags: result
    fields,          \* encode_fields: argument
    encoded_fields   \* encode_fields: result

vars == <<pc, namespace, events, pos, line_protocols, values, counts, dist_fields,
          key, escaped_key, tags, encoded_tags, fields, encoded_fields>>

(***************************************************************************)
(* Characters and strings                                                  *)
(***************************************************************************)

\* The characters the model uses, in ascending order of their byte value.
AsciiOrder ==
    <<" ", "\"", ",", "-", ".",
      "0", "1", "2", "3", "4", "5", "6", "7", "8", "9",
      "=", "\\", "_",
      "a", "b", "c", "d", "e", "f", "g", "h", "i", "j", "k", "l", "m",
      "n", "o", "p", "q", "r", "s", "t", "u", "v", "w", "x", "y", "z">>

Chars == {AsciiOrder[i] : i \in 1..Len(AsciiOrder)}

\* Rank of a character in byte order (order-isomorphic to its byte value).
CharRank == [c \in Chars |-> CHOOSE i \in 1..Len(AsciiOrder) : AsciiOrder[i] = c]

\* Ord for String: byte-wise lexicographic, a proper prefix is smaller.
RECURSIVE StrLess(_, _)
StrLess(a, b) ==
    IF b = <<>> THEN FALSE
    ELSE IF a = <<>> THEN TRUE
    ELSE IF Head(a) = Head(b) THEN StrLess(Tail(a), Tail(b))
    ELSE CharRank[Head(a)] < CharRank[Head(b)]

\* str::replace for a one-character pattern: every occurrence, left to right.
RECURSIVE Replace(_, _, _)
Replace(s, from, to) ==
    IF s = <<>> THEN <<>>
    ELSE (IF Head(s) = from THEN to ELSE <<Head(s)>>) \o Replace(Tail(s), from, to)

\* [String]::join
RECURSIVE Join(_, _)
Join(parts, sep) ==
    IF parts = <<>> THEN <<>>
    ELSE IF Len(parts) = 1 THEN parts[1]
    ELSE parts[1] \o sep \o Join(Tail(parts), sep)

\* Iteration order of a BTreeMap<&String, _>: the keys in ascending order.
RECURSIVE SortedKeys(_)
SortedKeys(ks) ==
    IF ks = {} THEN <<>>
    ELSE LET least == CHOOSE k \in ks : \A o \in ks \ {k} : StrLess(k, o)
         IN  <<least>> \o SortedKeys(ks \ {least})

(***************************************************************************)
(* encode_key                                                              *)
(***************************************************************************)

\* A bug variant: the backslash replacement applied last instead of first.
encode_key_backslash_last(k) ==
    Replace(Replace(Replace(Replace(k,
        ",", <<"\\", ",">>),
        " ", <<"\\", " ">>),
        "=", <<"\\", "=">>),
        "\\", <<"\\", "\\">>)

encode_key(k) ==
    Replace(Replace(Replace(Replace(k,
        "\\", <<"\\", "\\">>),
        ",", <<"\\", ",">>),
        " ", <<"\\", " ">>),
        "=", <<"\\", "=">>)

(***************************************************************************)
(* Option, HashMap                                                         *)
(***************************************************************************)

None == [is_some |-> FALSE]
Some(x) == [is_some |-> TRUE, val |-> x]

\* Option::unwrap_or(HashMap::new())
unwrap_or_empty(opt) == IF opt.is_some THEN opt.val ELSE <<>>

\* HashMap::insert: the value of an existing key is replaced.
insert(m, k, v) == [x \in (DOMAIN m) \cup {k} |-> IF x = k THEN v ELSE m[x]]

(***************************************************************************)
(* Numbers and their Display                                               *)
(***************************************************************************)

Abs(i) == IF i < 0 THEN -i ELSE i

RECURSIVE Gcd(_, _)
Gcd(a, b) == IF b = 0 THEN a ELSE Gcd(b, a % b)

\* An f64 value: the rational n/d in lowest terms, d > 0.
Rat(n, d) == LET g == Gcd(Abs(n), d) IN <<n \div g, d \div g>>
F(i) == <<i, 1>>
RatAdd(a, b) == Rat(a[1] * b[2] + b[1] * a[2], a[2] * b[2])
RatSub(a, b) == Rat(a[1] * b[2] - b[1] * a[2], a[2] * b[2])
RatMul(a, b) == Rat(a[1] * b[1], a[2] * b[2])
RatDiv(a, b) == IF b[1] < 0 THEN Rat(-(a[1] * b[2]), a[2] * (-b[1]))
                ELSE Rat(a[1] * b[2], a[2] * b[1])
RatLess(a, b) == a[1] * b[2] < b[1] * a[2]

\* f64::round: to the nearest integer, halves away from zero.
round(x) ==
    IF x[1] >= 0 THEN (2 * x[1] + x[2]) \div (2 * x[2])
    ELSE -((2 * (-x[1]) + x[2]) \div (2 * x[2]))

\* `as usize` on a rounded f64.  The cast of a negative float is undefined or
\* saturating depending on the toolchain; the model keeps the negative number
\* so that the slice index that uses it is reported as a fault (InBounds).
as_usize(i) == i

DigitChars == <<"0", "1", "2", "3", "4", "5", "6", "7", "8", "9">>

\* Display of an unsigned integer.
RECURSIVE NatToString(_)
NatToString(n) ==
    IF n < 10 THEN <<DigitChars[n + 1]>>
    ELSE NatToString(n \div 10) \o <<DigitChars[(n % 10) + 1]>>

\* Display of a signed integer (i64 timestamp).
IntToString(i) == IF i < 0 THEN <<"-">> \o NatToString(-i) ELSE NatToString(i)

\* Number of fractional digits the model prints for a non-terminating
\* expansion (an f64 prints its shortest round-trip form, at most 17
\* significant digits).
FracDigits == 3

\* The fractional digits of r/d, r < d, by long division.
RECURSIVE FracToString(_, _, _)
FracToString(r, d, left) ==
    IF r = 0 \/ left = 0 THEN <<>>
    ELSE <<DigitChars[((10 * r) \div d) + 1]>> \o FracToString((10 * r) % d, d, left - 1)

\* f64::to_string: no decimal point for an integral value, no exponent.
FloatToString(f) ==
    LET n == Abs(f[1])
        d == f[2]
    IN  (IF f[1] < 0 THEN <<"-">> ELSE <<>>)
        \o NatToString(n \div d)
        \o (IF n % d = 0 THEN <<>> ELSE <<".">> \o FracToString(n % d, d, FracDigits))

(***************************************************************************)
(* Field and encode_fields                                                 *)
(***************************************************************************)

\* One record shape per kind of Field.
FieldString(s) == [kind |-> "String", string |-> s]
FieldFloat(f) == [kind |-> "Float", float |-> f]
FieldUnsignedInt(u) == [kind |-> "UnsignedInt", uint |-> u]

\* The match on the Field kind inside encode_fields.
FieldValueToString(field) ==
    CASE field.kind = "String" ->
            <<"\"">> \o Replace(Replace(field.string, "\\", <<"\\", "\\">>),
                                "\"", <<"\\", "\"">>) \o <<"\"">>
      [] field.kind = "Float" -> FloatToString(field.float)
      [] field.kind = "UnsignedInt" -> NatToString(field.uint) \o <<"i">>

\* format!("{}={}", key, value), or "" when either side is empty.
KeyValue(k, v) == IF k # <<>> /\ v # <<>> THEN k \o <<"=">> \o v ELSE <<>>

NonEmpty(s) == s # <<>>

\* A bug variant: the map iterated in descending key order.
RECURSIVE SortedKeysDescending(_)
SortedKeysDescending(ks) ==
    IF ks = {} THEN <<>>
    ELSE LET most == CHOOSE k \in ks : \A o \in ks \ {k} : StrLess(o, k)
         IN  <<most>> \o SortedKeysDescending(ks \ {most})

\* A bug variant: the field map iterated in descending key order.
FieldOrderDescending(fs) == SortedKeysDescending(DOMAIN fs)

\* The keys of the field map in the order encode_fields visits them.
FieldOrder(fs) == SortedKeys(DOMAIN fs)

\* The Vec `encoded` of encode_fields, before the join.
FieldsEncoded(fs) ==
    LET ordered == FieldOrder(fs)
        mapped == [i \in 1..Len(ordered) |->
                     KeyValue(encode_key(ordered[i]), FieldValueToString(fs[ordered[i]]))]
    IN  SelectSeq(mapped, NonEmpty)

encode_fields(fs) == Join(FieldsEncoded(fs), <<",">>)

(***************************************************************************)
(* encode_tags                                                             *)
(***************************************************************************)

\* The keys of the tag map in the order encode_tags visits them.
TagOrder(ts) == SortedKeys(DOMAIN ts)

\* A bug variant: the empty pairs are not filtered out before the join.
TagsOrderedUnfiltered(ts) ==
    LET ordered == TagOrder(ts)
    IN  [i \in 1..Len(ordered) |->
            KeyValue(encode_key(ordered[i]), encode_key(ts[ordered[i]]))]

\* The Vec `ordered` of encode_tags, before the join.
TagsOrdered(ts) ==
    LET ordered == TagOrder(ts)
        mapped == [i \in 1..Len(ordered) |->
                     KeyValue(encode_key(ordered[i]), encode_key(ts[ordered[i]]))]
    IN  SelectSeq(mapped, NonEmpty)

encode_tags(ts) == Join(TagsOrdered(ts), <<",">>)

(***************************************************************************)
(* encode_distribution                                                     *)
(***************************************************************************)

\* The outcome of a slice index out of bounds (or unwrap of None): a panic.
Panic == [panic |-> TRUE]

\* The field names of a distribution.
S_min == <<"m", "i", "n">>
S_max == <<"m", "a", "x">>
S_median == <<"m", "e", "d", "i", "a", "n">>
S_avg == <<"a", "v", "g">>
S_sum == <<"s", "u", "m">>
S_count == <<"c", "o", "u", "n", "t">>
S_quantile_095 == <<"q", "u", "a", "n", "t", "i", "l", "e", "_", "0", ".", "9", "5">>

\* A bug variant: a value is pushed once whatever its positive weight is.
RepeatOnce(v, c) == IF c = 0 THEN <<>> ELSE <<v>>

\* The inner loop: `c` pushes of `v`.
RECURSIVE Repeat(_, _)
Repeat(v, c) == IF c = 0 THEN <<>> ELSE <<v>> \o Repeat(v, c - 1)

\* The outer loop over values.iter().zip(counts.iter()).
RECURSIVE Expand(_, _)
Expand(vs, cs) ==
    IF vs = <<>> \/ cs = <<>> THEN <<>>
    ELSE Repeat(Head(vs), Head(cs)) \o Expand(Tail(vs), Tail(cs))

\* Insertion of x into an ascending sequence, after the elements equal to it.
RECURSIVE InsertSorted(_, _)
InsertSorted(sorted, x) ==
    IF sorted = <<>> THEN <<x>>
    ELSE IF RatLess(x, Head(sorted)) THEN <<x>> \o sorted
    ELSE <<Head(sorted)>> \o InsertSorted(Tail(sorted), x)

\* samples.sort_by(partial_cmp): a stable ascending sort.
RECURSIVE sort_by(_)
sort_by(samples) ==
    IF samples = <<>> THEN <<>>
    ELSE InsertSorted(sort_by(SubSeq(samples, 1, Len(samples) - 1)), samples[Len(samples)])

\* samples.iter().sum()
RECURSIVE SumOf(_)
SumOf(samples) ==
    IF samples = <<>> THEN F(0) ELSE RatAdd(Head(samples), SumOf(Tail(samples)))

\* A bug variant: the index taken as round(q * length), without the "- 1".
QuantileIndexNoMinusOne(q, length) == as_usize(round(RatMul(q, length)))

\* (q * length - 1.0).round() as usize
QuantileIndex(q, length) == as_usize(round(RatSub(RatMul(q, length), F(1))))

\* Whether samples[i] (0-based) is in bounds.
InBounds(samples, i) == i >= 0 /\ i < Len(samples)

\* A bug variant: every expanded sample count goes through the index arithmetic.
IsSingleSampleNever(samples) == FALSE

\* samples.len() == 1
IsSingleSample(samples) == Len(samples) = 1

Q50 == <<1, 2>>
Q95 == <<19, 20>>

encode_distribution(vs, cs) ==
    IF Len(vs) # Len(cs) THEN None
    ELSE
      LET samples == Expand(vs, cs) IN
      IF samples = <<>> THEN None
      ELSE IF IsSingleSample(samples) THEN
        LET val == samples[1] IN
        Some((S_min :> FieldFloat(val)) @@ (S_max :> FieldFloat(val))
             @@ (S_median :> FieldFloat(val)) @@ (S_avg :> FieldFloat(val))
             @@ (S_sum :> FieldFloat(val)) @@ (S_count :> FieldFloat(F(1)))
             @@ (S_quantile_095 :> FieldFloat(val)))
      ELSE
        LET sorted == sort_by(samples)
            length == F(Len(sorted))
            min == sorted[1]
            max == sorted[Len(sorted)]
            i50 == QuantileIndex(Q50, length)
            i95 == QuantileIndex(Q95, length)
        IN  IF ~InBounds(sorted, i50) \/ ~InBounds(sorted, i95) THEN Panic
            ELSE
              LET p50 == sorted[i50 + 1]
                  p95 == sorted[i95 + 1]
                  sum == SumOf(sorted)
                  avg == RatDiv(sum, length)
              IN  Some((S_min :> FieldFloat(min)) @@ (S_max :> FieldFloat(max))
                       @@ (S_median :> FieldFloat(p50)) @@ (S_avg :> FieldFloat(avg))
                       @@ (S_sum :> FieldFloat(sum)) @@ (S_count :> FieldFloat(length))
                       @@ (S_quantile_095 :> FieldFloat(p95)))

(***************************************************************************)
(* influx_line_protocol and its helpers                                    *)
(***************************************************************************)

S_metric_type == <<"m", "e", "t", "r", "i", "c", "_", "t", "y", "p", "e">>
S_counter == <<"c", "o", "u", "n", "t", "e", "r">>
S_gauge == <<"g", "a", "u", "g", "e">>
S_set == <<"s", "e", "t">>
S_histogram == <<"h", "i", "s", "t", "o", "g", "r", "a", "m">>
S_summary == <<"s", "u", "m", "m", "a", "r", "y">>
S_distribution == <<"d", "i", "s", "t", "r", "i", "b", "u", "t", "i", "o", "n">>
S_value == <<"v", "a", "l", "u", "e">>
S_bucket_ == <<"b", "u", "c", "k", "e", "t", "_">>
S_quantile_ == <<"q", "u", "a", "n", "t", "i", "l", "e", "_">>

\* encode_timestamp: the sample's instant, or the clock's when it has none.
encode_timestamp(timestamp, now) == IF timestamp.is_some THEN timestamp.val ELSE now

encode_namespace(ns, name) == IF ns # <<>> THEN ns \o <<".">> \o name ELSE name

to_fields(value) == (S_value :> FieldFloat(value))

\* A bug variant: the metric_type tag is added only when the key is free.
MergeMetricTypeKeepExisting(unwrapped_tags, metric_type) ==
    IF S_metric_type \in DOMAIN unwrapped_tags THEN unwrapped_tags
    ELSE insert(unwrapped_tags, S_metric_type, metric_type)

\* unwrapped_tags.insert("metric_type", metric_type)
MergeMetricType(unwrapped_tags, metric_type) ==
    insert(unwrapped_tags, S_metric_type, metric_type)

influx_line_protocol(measurement, metric_type, tgs, flds, timestamp) ==
    LET unwrapped_tags == MergeMetricType(unwrap_or_empty(tgs), metric_type)
        unwrapped_fields == unwrap_or_empty(flds)
        encoded == encode_fields(unwrapped_fields)
    IN  IF encoded = <<>> THEN <<>>
        ELSE encode_key(measurement) \o <<",">> \o encode_tags(unwrapped_tags)
             \o <<" ">> \o encoded \o <<" ">> \o IntToString(timestamp)

(***************************************************************************)
(* Metric, MetricValue                                                     *)
(***************************************************************************)

Counter(v) == [variant |-> "Counter", value |-> v]
Gauge(v) == [variant |-> "Gauge", value |-> v]
Set(vs) == [variant |-> "Set", values |-> vs]
AggregatedHistogram(b, c, n, s) ==
    [variant |-> "AggregatedHistogram", buckets |-> b, counts |-> c, count |-> n, sum |-> s]
AggregatedSummary(q, v, n, s) ==
    [variant |-> "AggregatedSummary", quantiles |-> q, values |-> v, count |-> n, sum |-> s]
Distribution(v, r) == [variant |-> "Distribution", values |-> v, sample_rates |-> r]

Metric(name, timestamp, tgs, value) ==
    [name |-> name, timestamp |-> timestamp, tags |-> tgs, value |-> value]

Min2(a, b) == IF a < b THEN a ELSE b

\* a.iter().zip(b.iter()).map(..).collect::<HashMap>(): index-aligned pairs up
\* to the shorter length, keyed by prefix + number; a repeated key keeps its
\* last value.
ZipCollect(prefix, nums, vals) ==
    LET n == Min2(Len(nums), Len(vals))
        name(i) == prefix \o FloatToString(nums[i])
        last(k) == CHOOSE i \in 1..n : name(i) = k /\ \A j \in (i + 1)..n : name(j) # k
    IN  [k \in {name(i) : i \in 1..n} |-> vals[last(k)]]

\* The bucket_ fields, each an UnsignedInt.
BucketFields(v) ==
    LET zipped == ZipCollect(S_bucket_, v.buckets, v.counts)
    IN  [k \in DOMAIN zipped |-> FieldUnsignedInt(zipped[k])]

\* The quantile_ fields, each a Float.
QuantileFields(v) ==
    LET zipped == ZipCollect(S_quantile_, v.quantiles, v.values)
    IN  [k \in DOMAIN zipped |-> FieldFloat(zipped[k])]

\* A bug variant: the count and sum fields are not added.
HistogramFieldsNoTotals(v) == BucketFields(v)

\* A bug variant: buckets and counts of different length are rejected, the
\* way encode_distribution rejects its slices.
HistogramFieldsValidated(v) ==
    IF Len(v.buckets) # Len(v.counts) THEN <<>>
    ELSE insert(insert(BucketFields(v), S_count, FieldUnsignedInt(v.count)),
                S_sum, FieldFloat(v.sum))

HistogramFields(v) ==
    insert(insert(BucketFields(v), S_count, FieldUnsignedInt(v.count)),
           S_sum, FieldFloat(v.sum))

SummaryFields(v) ==
    insert(insert(QuantileFields(v), S_count, FieldUnsignedInt(v.count)),
           S_sum, FieldFloat(v.sum))

(***************************************************************************)
(* encode_events: one action per arm of the match on event.value           *)
(***************************************************************************)

\* A bug variant: a new line is put in front of the collected ones.
CollectPrepend(lines, lp) == IF lp # <<>> THEN <<lp>> \o lines ELSE lines

\* A bug variant: the empty line of a suppressed sample is collected too.
CollectUnfiltered(lines, lp) == Append(lines, lp)

\* .flatten().filter(|lp| !lp.is_empty()).collect()
Collect(lines, lp) == IF lp # <<>> THEN Append(lines, lp) ELSE lines

\* Instants the clock can return to encode_timestamp(None).
NowValues == {10, 11}

\* The clock is read only for a sample without a timestamp.
ClockReads(event) == IF event.timestamp.is_some THEN {0} ELSE NowValues

\* The body of the filter_map closure, after the match chose type and fields.
Emit(event, metric_type, flds) ==
    \E now \in ClockReads(event) :
        LET fullname == encode_namespace(namespace, event.name)
            ts == encode_timestamp(event.timestamp, now)
            lp == influx_line_protocol(fullname, metric_type, event.tags, flds, ts)
        IN  /\ pos' = pos + 1
            /\ line_protocols' = Collect(line_protocols, lp)
            /\ pc' = IF pos + 1 = Len(events) THEN "done" ELSE "encode"

Next_event == events[pos + 1]
Has_next(variant) ==
    /\ pc = "encode"
    /\ pos < Len(events)
    /\ Next_event.value.variant = variant

UnchangedOthers ==
    UNCHANGED <<namespace, events, values, counts, dist_fields, key, escaped_key,
                tags, encoded_tags, fields, encoded_fields>>

EncodeCounter ==
    /\ Has_next("Counter")
    /\ Emit(Next_event, S_counter, Some(to_fields(Next_event.value.value)))
    /\ UnchangedOthers

EncodeGauge ==
    /\ Has_next("Gauge")
    /\ Emit(Next_event, S_gauge, Some(to_fields(Next_event.value.value)))
    /\ UnchangedOthers

EncodeSet ==
    /\ Has_next("Set")
    /\ Emit(Next_event, S_set, Some(to_fields(F(Cardinality(Next_event.value.values)))))
    /\ UnchangedOthers

EncodeAggregatedHistogram ==
    /\ Has_next("AggregatedHistogram")
    /\ Emit(Next_event, S_histogram, Some(HistogramFields(Next_event.value)))
    /\ UnchangedOthers

EncodeAggregatedSummary ==
    /\ Has_next("AggregatedSummary")
    /\ Emit(Next_event, S_summary, Some(SummaryFields(Next_event.value)))
    /\ UnchangedOthers

EncodeDistribution ==
    /\ Has_next("Distribution")
    /\ LET flds == encode_distribution(Next_event.value.values,
                                       Next_event.value.sample_rates)
       IN  IF flds = Panic
           THEN pc' = "panic" /\ UNCHANGED <<pos, line_protocols>>
           ELSE Emit(Next_event, S_distribution, flds)
    /\ UnchangedOthers

(***************************************************************************)
(* Inputs of encode_events                                                 *)
(***************************************************************************)

\* Largest batch the model feeds to encode_events.
MaxBatch == 2

S_m == <<"m">>
S_a_b == <<"a", " ", "b">>
S_ns == <<"n", "s">>
S_t == <<"t">>
S_v == <<"v">>
S_e == <<"e">>
S_x == <<"x">>

Namespaces == {<<>>, S_ns}

TagOptions ==
    { None,
      Some(<<>>),
      Some((S_metric_type :> S_x)),
      Some((S_t :> S_v) @@ (S_e :> <<>>)) }

DistGood == Distribution(<<F(1), F(2), F(3)>>, <<3, 3, 2>>)
DistWeighted == Distribution(<<F(1)>>, <<3>>)
DistSingle == Distribution(<<F(1)>>, <<1>>)
DistEmpty == Distribution(<<>>, <<>>)
DistZero == Distribution(<<F(1), F(2)>>, <<0, 0>>)
DistUnequal == Distribution(<<F(1)>>, <<1, 2, 3>>)

ValueSamples ==
    { Counter(<<3, 2>>),
      Gauge(<<-3, 2>>),
      Set({S_a_b, S_m}),
      Set({}),
      AggregatedHistogram(<<F(1), <<21, 10>>, F(3)>>, <<1, 2, 3>>, 6, <<25, 2>>),
      AggregatedHistogram(<<F(1), F(2)>>, <<1>>, 1, F(1)),
      AggregatedHistogram(<<>>, <<>>, 0, F(0)),
      AggregatedSummary(<<<<1, 100>>, <<1, 2>>>>, <<<<3, 2>>, F(2)>>, 6, F(12)),
      AggregatedHistogram(<<F(1)>>, <<1, 2>>, 3, F(2)),
      AggregatedSummary(<<<<1, 2>>>>, <<F(2), F(3)>>, 2, F(5)),
      AggregatedSummary(<<<<1, 2>>, <<99, 100>>>>, <<F(2)>>, 1, F(2)),
      DistGood, DistWeighted, DistSingle, DistEmpty, DistZero, DistUnequal }

Events ==
    {Metric(S_m, Some(3), None, v) : v \in ValueSamples}
    \cup {Metric(S_a_b, None, g, v) : g \in TagOptions, v \in {Counter(F(1)), DistZero}}
    \cup {Metric(S_m, Some(3), g, v) : g \in TagOptions, v \in {Counter(F(1)), DistZero}}
    \cup {Metric(<<>>, Some(3), None, Counter(F(1)))}

RECURSIVE SeqsUpTo(_, _)
SeqsUpTo(S, n) ==
    IF n = 0 THEN {<<>>}
    ELSE LET shorter == SeqsUpTo(S, n - 1)
         IN  shorter \cup {Append(q, x) : q \in shorter, x \in S}

\* The value of the variables a specification does not use.
Idle == <<>>

Init ==
    /\ namespace \in Namespaces
    /\ events \in SeqsUpTo(Events, MaxBatch)
    /\ pos = 0
    /\ line_protocols = <<>>
    /\ pc = IF events = <<>> THEN "done" ELSE "encode"
    /\ values = Idle /\ counts = Idle /\ dist_fields = Idle
    /\ key = Idle /\ escaped_key = Idle
    /\ tags = Idle /\ encoded_tags = Idle
    /\ fields = Idle /\ encoded_fields = Idle

Next ==
    \/ EncodeCounter
    \/ EncodeGauge
    \/ EncodeSet
    \/ EncodeAggregatedHistogram
    \/ EncodeAggregatedSummary
    \/ EncodeDistribution

Spec == Init /\ [][Next]_vars

(***************************************************************************)
(* Specification of encode_distribution alone                              *)
(***************************************************************************)

\* Longest values / counts slice the model passes to encode_distribution.
MaxDistLen == 3
\* Largest sample rate (weight) of one value.
MaxCount == 4

DistValues == {<<-3, 2>>, F(1), F(2), F(3)}

InitDist ==
    /\ values \in SeqsUpTo(DistValues, MaxDistLen)
    /\ counts \in SeqsUpTo(0..MaxCount, MaxDistLen)
    /\ dist_fields = Idle
    /\ pc = "start"
    /\ namespace = Idle /\ events = Idle /\ pos = 0 /\ line_protocols = Idle
    /\ key = Idle /\ escaped_key = Idle
    /\ tags = Idle /\ encoded_tags = Idle
    /\ fields = Idle /\ encoded_fields = Idle

CallEncodeDistribution ==
    /\ pc = "start"
    /\ dist_fields' = encode_distribution(values, counts)
    /\ pc' = "done"
    /\ UNCHANGED <<namespace, events, pos, line_protocols, values, counts,
                   key, escaped_key, tags, encoded_tags, fields, encoded_fields>>

NextDist == CallEncodeDistribution

SpecDist == InitDist /\ [][NextDist]_vars

(***************************************************************************)
(* Specification of encode_key alone                                       *)
(***************************************************************************)

\* Longest key the model passes to encode_key.
MaxKeyLen == 3

KeyChars == {"a", "\\", ",", " ", "="}

InitKey ==
    /\ key \in SeqsUpTo(KeyChars, MaxKeyLen)
    /\ escaped_key = Idle
    /\ pc = "start"
    /\ namespace = Idle /\ events = Idle /\ pos = 0 /\ line_protocols = Idle
    /\ values = Idle /\ counts = Idle /\ dist_fields = Idle
    /\ tags = Idle /\ encoded_tags = Idle
    /\ fields = Idle /\ encoded_fields = Idle

CallEncodeKey ==
    /\ pc = "start"
    /\ escaped_key' = encode_key(key)
    /\ pc' = "done"
    /\ UNCHANGED <<namespace, events, pos, line_protocols, values, counts, dist_fields,
                   key, tags, encoded_tags, fields, encoded_fields>>

NextKey == CallEncodeKey

SpecKey == InitKey /\ [][NextKey]_vars

(***************************************************************************)
(* Specification of encode_tags alone                                      *)
(***************************************************************************)

S_a0 == <<"a", "0">>
S_b == <<"b">>

\* Every map with keys among K and values in V.
Maps(K, V) == UNION {[D -> V] : D \in SUBSET K}

TagKeys == {<<>>, S_a_b, S_a0, S_b}
TagValues == {<<>>, S_v, <<"x", "=">>, <<"\\">>}

InitTags ==
    /\ tags \in Maps(TagKeys, TagValues)
    /\ encoded_tags = Idle
    /\ pc = "start"
    /\ namespace = Idle /\ events = Idle /\ pos = 0 /\ line_protocols = Idle
    /\ values = Idle /\ counts = Idle /\ dist_fields = Idle
    /\ key = Idle /\ escaped_key = Idle
    /\ fields = Idle /\ encoded_fields = Idle

CallEncodeTags ==
    /\ pc = "start"
    /\ encoded_tags' = encode_tags(tags)
    /\ pc' = "done"
    /\ UNCHANGED <<namespace, events, pos, line_protocols, values, counts, dist_fields,
                   key, escaped_key, tags, fields, encoded_fields>>

NextTags == CallEncodeTags

SpecTags == InitTags /\ [][NextTags]_vars

(***************************************************************************)
(* Specification of encode_fields alone                                    *)
(***************************************************************************)

FieldKeys == {<<>>, S_a_b, S_a0, <<"b", ",">>}
FieldValues ==
    { FieldString(<<"s", "\\", "\"">>),
      FieldString(<<>>),
      FieldFloat(<<2469, 20>>),
      FieldUnsignedInt(7) }

InitFields ==
    /\ fields \in Maps(FieldKeys, FieldValues)
    /\ encoded_fields = Idle
    /\ pc = "start"
    /\ namespace = Idle /\ events = Idle /\ pos = 0 /\ line_protocols = Idle
    /\ values = Idle /\ counts = Idle /\ dist_fields = Idle
    /\ key = Idle /\ escaped_key = Idle
    /\ tags = Idle /\ encoded_tags = Idle

CallEncodeFields ==
    /\ pc = "start"
    /\ encoded_fields' = encode_fields(fields)
    /\ pc' = "done"
    /\ UNCHANGED <<namespace, events, pos, line_protocols, values, counts, dist_fields,
                   key, escaped_key, tags, encoded_tags, fields>>

NextFields == CallEncodeFields

SpecFields == InitFields /\ [][NextFields]_vars

(***************************************************************************)
(* Properties of encode_events (specification Spec)                        *)
(***************************************************************************)

RECURSIVE TotalWeight(_)
TotalWeight(rates) == IF rates = <<>> THEN 0 ELSE Head(rates) + TotalWeight(Tail(rates))

\* The samples the specification calls suppressed: a Distribution whose two
\* slices differ in length or whose total weight is 0.
BadDistribution(v) ==
    /\ v.variant = "Distribution"
    /\ \/ Len(v.values) # Len(v.sample_rates)
       \/ TotalWeight(v.sample_rates) = 0

\* The metric_type constant of each value variant.
VariantConstant(variant) ==
    CASE variant = "Counter" -> S_counter
      [] variant = "Gauge" -> S_gauge
      [] variant = "Set" -> S_set
      [] variant = "AggregatedHistogram" -> S_histogram
      [] variant = "AggregatedSummary" -> S_summary
      [] variant = "Distribution" -> S_distribution

\* The fields of a value on its own.
FieldsAlone(v) ==
    CASE v.variant = "Counter" -> Some(to_fields(v.value))
      [] v.variant = "Gauge" -> Some(to_fields(v.value))
      [] v.variant = "Set" -> Some(to_fields(F(Cardinality(v.values))))
      [] v.variant = "AggregatedHistogram" -> Some(HistogramFields(v))
      [] v.variant = "AggregatedSummary" -> Some(SummaryFields(v))
      [] v.variant = "Distribution" -> encode_distribution(v.values, v.sample_rates)

\* The lines a sample can get when it is encoded on its own (one per clock
\* reading when it has no timestamp).
LinesAlone(event) ==
    { influx_line_protocol(encode_namespace(namespace, event.name),
                           VariantConstant(event.value.variant),
                           event.tags, FieldsAlone(event.value),
                           encode_timestamp(event.timestamp, now))
      : now \in ClockReads(event) }

IsKept(i) == ~BadDistribution(events[i].value)

\* The consumed input positions whose sample is not suppressed, ascending.
KeptIndices == SelectSeq([i \in 1..pos |-> i], IsKept)

\* C1: after any number of consumed samples the result holds at most that
\* many lines, and its k-th line is the line of the k-th non-suppressed
\* sample of the input: same relative order, nothing duplicated or moved.
C1_OrderPreserved ==
    LET kept == KeptIndices
    IN  /\ Len(line_protocols) <= pos
        /\ Len(line_protocols) = Len(kept)
        /\ \A k \in 1..Len(kept) : line_protocols[k] \in LinesAlone(events[kept[k]])

\* A suppressed sample was consumed first and a kept one after it: a gap.
C1_Witness ==
    /\ pc = "done" /\ pos = 2
    /\ BadDistribution(events[1].value)
    /\ ~BadDistribution(events[2].value)
    /\ Len(line_protocols) = 1

\* C2: the step that consumes a Distribution with slices of different length
\* or with total weight 0 adds no line and leaves the lines collected for the
\* other samples as they are.
C2_BadDistributionAddsNoLine ==
    [][(pos' = pos + 1 /\ BadDistribution(events[pos + 1].value))
        => line_protocols' = line_protocols]_vars

\* A kept sample's line is there and a suppressed sample was consumed after it.
C2_Witness ==
    /\ pos = 2
    /\ ~BadDistribution(events[1].value)
    /\ BadDistribution(events[2].value)
    /\ Len(events[2].value.values) # Len(events[2].value.sample_rates)
    /\ Len(line_protocols) = 1

\* C3: the step that consumes any other sample (Counter, Gauge, Set,
\* AggregatedHistogram, AggregatedSummary, or a Distribution with slices of
\* equal length and total weight >= 1) adds exactly one line, and that line
\* is not empty.
C3_OtherSamplesAddOneLine ==
    [][(pos' = pos + 1 /\ ~BadDistribution(events[pos + 1].value))
        => /\ pc' # "panic"
           /\ Len(line_protocols') = Len(line_protocols) + 1
           /\ SubSeq(line_protocols', 1, Len(line_protocols)) = line_protocols
           /\ line_protocols'[Len(line_protocols')] # <<>>]_vars

\* A histogram without buckets and a sample with tags and a blank in its
\* name both produced their line.
C3_Witness ==
    /\ pc = "done" /\ pos = 2
    /\ events[1].value.variant = "AggregatedHistogram"
    /\ events[1].value.buckets = <<>>
    /\ events[2].name = S_a_b
    /\ events[2].tags.is_some
    /\ ~BadDistribution(events[2].value)
    /\ Len(line_protocols) = 2

\* Number of places where pat occurs in s.
Occurrences(s, pat) ==
    Cardinality({i \in 1..(Len(s) - Len(pat) + 1) : SubSeq(s, i, i + Len(pat) - 1) = pat})

\* C7: every emitted line has exactly one metric_type tag; it follows a comma
\* (so the tag block is not empty) and its value is the constant of the
\* sample's variant, also when the sample brought its own metric_type tag.
C7_OneMetricTypeTag ==
    LET kept == KeptIndices
    IN  \A k \in 1..Min2(Len(kept), Len(line_protocols)) :
            LET lp == line_protocols[k]
                tag == <<",">> \o S_metric_type \o <<"=">>
                         \o VariantConstant(events[kept[k]].value.variant)
            IN  /\ Occurrences(lp, S_metric_type \o <<"=">>) = 1
                /\ Occurrences(lp, tag \o <<",">>) + Occurrences(lp, tag \o <<" ">>) = 1

\* A sample that brought its own metric_type tag was emitted.
C7_Witness ==
    /\ pos >= 1 /\ Len(line_protocols) >= 1
    /\ ~BadDistribution(events[1].value)
    /\ events[1].tags = Some((S_metric_type :> S_x))

\* An AggregatedHistogram or AggregatedSummary whose two sequences differ in
\* length.
Mismatched(v) ==
    \/ v.variant = "AggregatedHistogram" /\ Len(v.buckets) # Len(v.counts)
    \/ v.variant = "AggregatedSummary" /\ Len(v.quantiles) # Len(v.values)

\* The two sequences of a histogram or summary, the prefix of its paired
\* field names, and the rendering of a paired value.
PairedNumbers(v) == IF v.variant = "AggregatedHistogram" THEN v.buckets ELSE v.quantiles
PairedValues(v) == IF v.variant = "AggregatedHistogram" THEN v.counts ELSE v.values
PairedPrefix(v) == IF v.variant = "AggregatedHistogram" THEN S_bucket_ ELSE S_quantile_
PairedName(v, i) == PairedPrefix(v) \o FloatToString(PairedNumbers(v)[i])
PairedValueText(v, i) ==
    IF v.variant = "AggregatedHistogram" THEN NatToString(PairedValues(v)[i]) \o <<"i">>
    ELSE FloatToString(PairedValues(v)[i])

\* How often the line holds the field k=text, closed by a comma or a blank.
FieldCount(lp, k, text) ==
    Occurrences(lp, k \o <<"=">> \o text \o <<",">>)
    + Occurrences(lp, k \o <<"=">> \o text \o <<" ">>)

\* C11: the step that consumes an AggregatedHistogram (AggregatedSummary)
\* whose buckets and counts (quantiles and values) differ in length adds
\* exactly one line; the line holds count and sum, one bucket_ (quantile_)
\* field for each of the first min(len, len) index-aligned pairs, and no
\* field for the unpaired trailing entries of the longer sequence.
C11_MismatchedLengthsAreTruncated ==
    [][(pos' = pos + 1 /\ Mismatched(events[pos + 1].value)) =>
        LET v == events[pos + 1].value
            paired == 1..Min2(Len(PairedNumbers(v)), Len(PairedValues(v)))
            unpaired == (1..Len(PairedNumbers(v))) \ paired
            pairedNames == {PairedName(v, i) : i \in paired}
        IN  /\ pc' # "panic"
            /\ Len(line_protocols') = Len(line_protocols) + 1
            /\ LET lp == line_protocols'[Len(line_protocols')]
               IN  /\ lp # <<>>
                   /\ FieldCount(lp, S_count, NatToString(v.count) \o <<"i">>) = 1
                   /\ FieldCount(lp, S_sum, FloatToString(v.sum)) = 1
                   /\ Occurrences(lp, PairedPrefix(v)) = Cardinality(pairedNames)
                   /\ \A i \in paired :
                         (\A j \in paired : j > i => PairedName(v, j) # PairedName(v, i))
                         => FieldCount(lp, PairedName(v, i), PairedValueText(v, i)) = 1
                   /\ \A i \in unpaired :
                         PairedName(v, i) \notin pairedNames
                         => Occurrences(lp, PairedName(v, i) \o <<"=">>) = 0]_vars

\* A histogram with more buckets than counts was consumed first and a summary
\* with more quantiles than values after it, and both have their line.
C11_Witness ==
    /\ pc = "done" /\ pos = 2
    /\ events[1].value.variant = "AggregatedHistogram"
    /\ Len(events[1].value.buckets) > Len(events[1].value.counts)
    /\ Len(events[1].value.counts) >= 1
    /\ events[2].value.variant = "AggregatedSummary"
    /\ Len(events[2].value.quantiles) > Len(events[2].value.values)
    /\ Len(line_protocols) = 2

(***************************************************************************)
(* Properties of encode_distribution (specification SpecDist)              *)
(***************************************************************************)

\* Positions of the argument pairs.
Pairs == 1..Min2(Len(values), Len(counts))

RECURSIVE WeightOf(_)
\* Total weight of a set of positions.
WeightOf(I) ==
    IF I = {} THEN 0
    ELSE LET i == CHOOSE j \in I : TRUE IN counts[i] + WeightOf(I \ {i})

\* n: the number of samples of the expansion.
ExpandedCount == WeightOf(Pairs)

\* The sample at 0-based index k of the ascending expansion: the value with
\* at most k expanded samples below it and more than k not above it.
OrderStatistic(k) ==
    CHOOSE v \in {values[i] : i \in {j \in Pairs : counts[j] > 0}} :
        /\ WeightOf({i \in Pairs : RatLess(values[i], v)}) <= k
        /\ k < WeightOf({i \in Pairs : ~RatLess(v, values[i])})

RECURSIVE WeightedSum(_)
\* The sum of values[i] * counts[i] over a set of positions.
WeightedSum(I) ==
    IF I = {} THEN F(0)
    ELSE LET i == CHOOSE j \in I : TRUE
         IN  RatAdd(RatMul(values[i], F(counts[i])), WeightedSum(I \ {i}))

\* round(p / q) for p >= 0, q > 0: the nearest integer, a half goes up.
NearestIndex(p, q) ==
    CHOOSE r \in 0..(p \div q + 1) :
        \/ 2 * Abs(r * q - p) < q
        \/ 2 * (r * q - p) = q

\* The statistic a returned field map holds under a name.
Stat(name) == dist_fields.val[name].float

StatNames == {S_min, S_max, S_median, S_avg, S_sum, S_count, S_quantile_095}

\* C4: for slices of equal length whose expansion has n >= 2 samples the
\* result is min = smallest sample, max = largest, median = the ascending
\* sample at index round(0.50 n - 1), quantile_0.95 = the one at index
\* round(0.95 n - 1), sum = the sum of the expansion, avg = sum / n and
\* count = n; values [1,2,3] with weights [3,3,2] give 1.875, 8, 3, 2, 1, 3, 15.
C4_DistributionStatistics ==
    (pc = "done" /\ Len(values) = Len(counts) /\ ExpandedCount >= 2) =>
        LET n == ExpandedCount IN
        /\ dist_fields # Panic
        /\ dist_fields.is_some
        /\ DOMAIN dist_fields.val = StatNames
        /\ Stat(S_min) = OrderStatistic(0)
        /\ Stat(S_max) = OrderStatistic(n - 1)
        /\ Stat(S_median) = OrderStatistic(NearestIndex(50 * n - 100, 100))
        /\ Stat(S_quantile_095) = OrderStatistic(NearestIndex(95 * n - 100, 100))
        /\ Stat(S_sum) = WeightedSum(Pairs)
        /\ Stat(S_avg) = RatDiv(WeightedSum(Pairs), F(n))
        /\ Stat(S_count) = F(n)
        /\ (values = <<F(1), F(2), F(3)>> /\ counts = <<3, 3, 2>>) =>
              /\ Stat(S_avg) = <<15, 8>> /\ Stat(S_count) = F(8)
              /\ Stat(S_max) = F(3) /\ Stat(S_median) = F(2) /\ Stat(S_min) = F(1)
              /\ Stat(S_quantile_095) = F(3) /\ Stat(S_sum) = F(15)

\* The example of the claim has been summarized.
C4_Witness ==
    /\ pc = "done"
    /\ values = <<F(1), F(2), F(3)>> /\ counts = <<3, 3, 2>>
    /\ dist_fields # Panic /\ dist_fields.is_some

\* C5 as stated: values [1.0] with weights [3] give min = max = median = avg =
\* sum = 1, count = 1 and quantile_0.95 = 1.
C5_AsStated ==
    (pc = "done" /\ values = <<F(1)>> /\ counts = <<3>>) =>
        /\ dist_fields # Panic /\ dist_fields.is_some
        /\ \A name \in {S_min, S_max, S_median, S_avg, S_sum, S_quantile_095} :
              Stat(name) = F(1)
        /\ Stat(S_count) = F(1)

\* C5 amended: values [1.0] with weights [3] expand to three samples, so
\* min = max = median = avg = quantile_0.95 = 1 while sum = 3 and count = 3.
C5_WeightedSingleValue ==
    (pc = "done" /\ values = <<F(1)>> /\ counts = <<3>>) =>
        /\ dist_fields # Panic /\ dist_fields.is_some
        /\ \A name \in {S_min, S_max, S_median, S_avg, S_quantile_095} :
              Stat(name) = F(1)
        /\ Stat(S_sum) = F(3)
        /\ Stat(S_count) = F(3)

\* The single value of weight 3 has been summarized.
C5_Witness ==
    /\ pc = "done" /\ values = <<F(1)>> /\ counts = <<3>>
    /\ dist_fields # Panic /\ dist_fields.is_some

\* C10: encode_distribution never ends in a panic; for n >= 2 both indices
\* round(0.50 n - 1) and round(0.95 n - 1) lie in 0..n-1; for n = 1 the result
\* is the sample itself in every statistic but count; slices of different
\* length and an empty expansion end in None.
C10_NoFault ==
    pc = "done" =>
        /\ dist_fields # Panic
        /\ (Len(values) # Len(counts) \/ ExpandedCount = 0) => dist_fields = None
        /\ (Len(values) = Len(counts) /\ ExpandedCount >= 2) =>
              /\ dist_fields.is_some
              /\ InBounds(Expand(values, counts), QuantileIndex(Q50, F(ExpandedCount)))
              /\ InBounds(Expand(values, counts), QuantileIndex(Q95, F(ExpandedCount)))
              /\ QuantileIndex(Q50, F(ExpandedCount)) \in 0..(ExpandedCount - 1)
              /\ QuantileIndex(Q95, F(ExpandedCount)) \in 0..(ExpandedCount - 1)
        /\ (Len(values) = Len(counts) /\ ExpandedCount = 1) =>
              /\ dist_fields.is_some
              /\ Stat(S_median) = OrderStatistic(0)
              /\ Stat(S_quantile_095) = OrderStatistic(0)
              /\ Stat(S_count) = F(1)

\* An expansion of ten or more samples has been summarized (from n = 10 on,
\* round(0.95 n) is n, one past the last index).
C10_Witness ==
    /\ pc = "done"
    /\ Len(values) = Len(counts)
    /\ ExpandedCount >= 10
    /\ dist_fields # Panic /\ dist_fields.is_some

(***************************************************************************)
(* Properties of encode_key, encode_tags, encode_fields                    *)
(***************************************************************************)

EscapedChars == {"\\", ",", " ", "="}

\* The single-pass escaping: a backslash in front of each of the four
\* characters, every other character kept.
RECURSIVE EscapeEachChar(_)
EscapeEachChar(s) ==
    IF s = <<>> THEN <<>>
    ELSE (IF Head(s) \in EscapedChars THEN <<"\\", Head(s)>> ELSE <<Head(s)>>)
         \o EscapeEachChar(Tail(s))

\* C9: encode_key(s) is the single-pass per-character escaping of s (no
\* inserted backslash is escaped again), and a string without backslash,
\* comma, space and '=' is returned unchanged.
C9_EscapeIsSinglePass ==
    pc = "done" =>
        /\ escaped_key = EscapeEachChar(key)
        /\ (\A i \in 1..Len(key) : key[i] \notin EscapedChars) => escaped_key = key

\* A key with a comma, a space or '=' next to a backslash has been escaped.
C9_Witness ==
    /\ pc = "done"
    /\ \E i \in 1..Len(key) : key[i] = "\\"
    /\ \E i \in 1..Len(key) : key[i] \in {",", " ", "="}
    /\ Len(escaped_key) = 2 * Len(key) - Cardinality({i \in 1..Len(key) : key[i] = "a"})

\* The elements of a set of keys in ascending order of the keys themselves.
AscendingRaw(S) ==
    [i \in 1..Cardinality(S) |->
        CHOOSE k \in S : Cardinality({o \in S : StrLess(o, k)}) = i - 1]

\* The elements of a set of keys in ascending order of their escaped form.
AscendingEscaped(S) ==
    [i \in 1..Cardinality(S) |->
        CHOOSE k \in S :
            Cardinality({o \in S : StrLess(encode_key(o), encode_key(k))}) = i - 1]

\* The tags whose escaped key and escaped value are both non-empty.
KeptTags == {k \in DOMAIN tags : encode_key(k) # <<>> /\ encode_key(tags[k]) # <<>>}

\* C6: encode_tags returns the pairs whose escaped key and escaped value are
\* both non-empty, as escaped-key = escaped-value, joined by commas in
\* ascending order of the tag keys; dropped pairs leave no comma behind.
C6_TagsSortedAndFiltered ==
    pc = "done" =>
        LET order == AscendingRaw(KeptTags)
        IN  encoded_tags =
              Join([i \in 1..Len(order) |->
                      encode_key(order[i]) \o <<"=">> \o encode_key(tags[order[i]])],
                   <<",">>)

\* A map with a dropped pair between two rendered ones has been encoded.
C6_Witness ==
    /\ pc = "done"
    /\ DOMAIN tags = TagKeys
    /\ tags[S_a0] = <<>>
    /\ tags[S_a_b] = <<"x", "=">>
    /\ tags[S_b] = S_v

\* Rendering of one field.
FieldPair(k) == encode_key(k) \o <<"=">> \o FieldValueToString(fields[k])

\* The fields that are rendered: escaped key and rendered value non-empty.
KeptFields ==
    {k \in DOMAIN fields : encode_key(k) # <<>> /\ FieldValueToString(fields[k]) # <<>>}

\* C8 as stated: the pairs are rendered in ascending order of the escaped key.
C8_AsStated ==
    pc = "done" =>
        LET order == AscendingEscaped(KeptFields)
        IN  encoded_fields = Join([i \in 1..Len(order) |-> FieldPair(order[i])], <<",">>)

\* C8 amended: the pairs are rendered in ascending order of the field key as
\* it is in the map, before escaping.
C8_FieldsSortedByRawKey ==
    pc = "done" =>
        LET order == AscendingRaw(KeptFields)
        IN  encoded_fields = Join([i \in 1..Len(order) |-> FieldPair(order[i])], <<",">>)

\* Two fields whose keys compare one way raw and the other way escaped have
\* been rendered.
C8_Witness ==
    /\ pc = "done"
    /\ {S_a_b, S_a0} \subseteq DOMAIN fields
    /\ StrLess(S_a_b, S_a0)
    /\ StrLess(encode_key(S_a0), encode_key(S_a_b))
    /\ encoded_fields # <<>>

====
